---- MODULE Spec2Model ----
(***************************************************************************)
(* Versioned-record orchestration protocol of the passw0rd SDK             *)
(* (src/protocol.go, src/models.go): construction of a Protocol and its    *)
(* three operations EnrollAccount, VerifyPassword, UpdateEnrollmentRecord. *)
(*                                                                         *)
(* The PHE primitives (github.com/passw0rd/phe-go) and the APIClient are   *)
(* external collaborators.  They are modelled as free terms: a blob        *)
(* remembers the password and key it was enrolled with, the epoch of the   *)
(* client that enrolled it and the update tokens applied to it, in order.  *)
(***************************************************************************)
EXTENDS Integers, Sequences, FiniteSets, TLC

\* ctx: the context the orchestrator was constructed from; proto: the
\* orchestrator; newErr: the error of NewProtocol; last: the outcome of the
\* latest call that returned to the followed caller; conc: the goroutines
\* using the orchestrator (where each is: idle, inside sync.Once.Do, or
\* waiting in the APIClient; the arguments of the followed caller's call;
\* the mutex of the Once; the APIClient values built so far and the handle
\* each goroutine was given).
VARIABLES ctx, proto, newErr, last, conc

vars == <<ctx, proto, newErr, last, conc>>

\* Highest epoch of the model.
MaxVersion == 3

Versions == 1..MaxVersion
Passwords == {"pw1", "pw2"}
Keys == {"k1", "k2"}
\* A zero-length (or nil) key.
EmptyKey == ""

-----------------------------------------------------------------------------
\* Error values.  NoErr is Go's nil error.
NoErr == ""
ErrInvalidContext == "InvalidConfiguration"
ErrRequestFailed == "EnrollmentRequestFailed"
ErrEpochUnavailable == "EpochUnavailable"
ErrEnrollFailed == "EnrollFailed"
ErrMalformedRecord == "MalformedRecord"
ErrVersionMismatch == "VersionMismatch"
ErrChallengeFailed == "ChallengeFailed"
ErrVerificationRequestFailed == "VerificationRequestFailed"
ErrVerificationFailed == "VerificationFailed"
ErrInvalidPassword == "InvalidPassword"
ErrInvalidVersion == "InvalidVersion"
ErrMissingUpdateToken == "MissingUpdateToken"
ErrUpdateFailed == "UpdateFailed"

-----------------------------------------------------------------------------
\* Go maps keyed by epoch.  Clients and tokens are identified by their epoch:
\* the registry holds the genuine client/token of each epoch it has a key for.
NilMap == [isNil |-> TRUE, keys |-> {}]
MapOf(S) == [isNil |-> FALSE, keys |-> S]

\* Optional pointers: <<>> is nil, <<v>> is the client/token of epoch v.
NoClient == <<>>
NoToken == <<>>

\* *phe.EnrollmentRecord: nil, or the term Enroll(client ep, pw, key) with the
\* update tokens applied to it so far.
NilBlob == [isNil |-> TRUE, pw |-> "", key |-> "", ep |-> 0, toks |-> <<>>]
Blob(pw, key, ep, toks) == [isNil |-> FALSE, pw |-> pw, key |-> key, ep |-> ep, toks |-> toks]

\* The epoch whose keys a blob is valid under: the enrolling epoch advanced by
\* a gap-free chain of tokens ep+1, ep+2, ...; 0 when the chain is broken.
BlobEpoch(b) ==
    IF b.isNil THEN 0
    ELSE IF \A i \in 1..Len(b.toks) : b.toks[i] = b.ep + i
         THEN b.ep + Len(b.toks)
         ELSE 0

-----------------------------------------------------------------------------
\* Serialized records ([]byte).  "obj" is a JSON object; extra marks bytes that
\* decoding ignores (unknown fields, whitespace) and encoding never writes.
NoDoc == [kind |-> "none", version |-> 0, enrollment |-> NilBlob, extra |-> FALSE]
NullDoc == [kind |-> "null", version |-> 0, enrollment |-> NilBlob, extra |-> FALSE]
BadDoc == [kind |-> "bad", version |-> 0, enrollment |-> NilBlob, extra |-> FALSE]
ObjDoc(v, b, x) == [kind |-> "obj", version |-> v, enrollment |-> b, extra |-> x]

\* EnrollmentRecord of models.go.
EnrollmentRecord(v, b) == [isNil |-> FALSE, Version |-> v, Enrollment |-> b]
NilRecord == [isNil |-> TRUE, Version |-> 0, Enrollment |-> NilBlob]

\* json.Unmarshal(data, &rec) with rec a *EnrollmentRecord: a JSON null leaves
\* the pointer nil without an error; a missing field keeps its zero value.
Unmarshal(doc) ==
    IF doc.kind = "obj" THEN [err |-> NoErr, rec |-> EnrollmentRecord(doc.version, doc.enrollment)]
    ELSE IF doc.kind = "null" THEN [err |-> NoErr, rec |-> NilRecord]
    ELSE [err |-> ErrMalformedRecord, rec |-> NilRecord]

\* json.Marshal(rec): exactly the two tagged fields.
Marshal(rec) == ObjDoc(rec.Version, rec.Enrollment, FALSE)

-----------------------------------------------------------------------------
\* phe.Client.EnrollAccount: the client of epoch cl checks the seed's proof
\* against its server public key, then draws the key m.
PheEnrollAccount(cl, password, seed, m) ==
    IF seed.ep = cl[1]
    THEN [err |-> NoErr, rec |-> Blob(password, m, cl[1], <<>>), key |-> m]
    ELSE [err |-> ErrEnrollFailed, rec |-> NilBlob, key |-> EmptyKey]

\* phe.Client.CreateVerifyPasswordRequest.
PheCreateVerifyPasswordRequest(cl, password, blob) ==
    IF blob.isNil
    THEN [err |-> ErrChallengeFailed, req |-> [cl |-> 0, pw |-> "", blob |-> NilBlob]]
    ELSE [err |-> NoErr, req |-> [cl |-> cl[1], pw |-> password, blob |-> blob]]

\* The service's answer to a verify request for epoch version: success exactly
\* when the challenge was built by that epoch's client from the enrolled
\* password and a blob valid under that epoch.
ServerVerify(version, req) ==
    [valid |-> TRUE,
     res |-> /\ req.cl = version
             /\ BlobEpoch(req.blob) = version
             /\ req.pw = req.blob.pw]

\* phe.Client.CheckResponseAndDecrypt: an invalid proof is an error, a valid
\* proof of failure yields an empty key and no error.
PheCheckResponseAndDecrypt(cl, password, blob, resp) ==
    IF ~resp.valid THEN [err |-> ErrVerificationFailed, key |-> EmptyKey]
    ELSE IF resp.res THEN [err |-> NoErr, key |-> blob.key]
    ELSE [err |-> NoErr, key |-> EmptyKey]

\* phe.UpdateRecord.
PheUpdateRecord(blob, token) ==
    IF blob.isNil THEN [err |-> ErrUpdateFailed, rec |-> NilBlob]
    ELSE [err |-> NoErr, rec |-> [blob EXCEPT !.toks = Append(@, token[1])]]

-----------------------------------------------------------------------------
\* Contexts handed to NewProtocol: a nil context, or an app identity with
\* the two registries and the current epoch.
TokenEpochs == 2..MaxVersion

\* The two registries are varied one at a time (no operation reads both:
\* getPHE reads PHEClients only, getToken UpdateTokens only): any client
\* registry with no token registry, any token registry with all clients.
Contexts ==
    {c \in [isNil : {FALSE},
            AppId : {"", "app"},
            PHEClients : {NilMap} \cup {MapOf(S) : S \in SUBSET Versions},
            UpdateTokens : {NilMap} \cup {MapOf(S) : S \in SUBSET TokenEpochs},
            Version : Versions] :
        c.UpdateTokens.isNil \/ c.PHEClients = MapOf(Versions)}
    \cup
    {[isNil |-> TRUE, AppId |-> "", PHEClients |-> NilMap, UpdateTokens |-> NilMap, Version |-> 1]}

\* A nil *Protocol.
NoProtocol ==
    [isNil |-> TRUE, AppID |-> "", PHEClients |-> NilMap, UpdateTokens |-> NilMap,
     APIClient |-> "nil", CurrentVersion |-> 0, once |-> FALSE]

NewProtocolResult(context) ==
    IF context.isNil \/ context.AppId = "" \/ context.PHEClients.isNil
    THEN [p |-> NoProtocol, err |-> ErrInvalidContext]
    ELSE [p |-> [isNil |-> FALSE,
                 AppID |-> context.AppId,
                 PHEClients |-> context.PHEClients,
                 UpdateTokens |-> context.UpdateTokens,
                 APIClient |-> "nil",
                 CurrentVersion |-> context.Version,
                 once |-> FALSE],
          err |-> NoErr]

\* getClient: the once-guarded body builds a client only if none is set.
getClient(p) ==
    IF p.once THEN p
    ELSE [p EXCEPT !.once = TRUE,
                   !.APIClient = IF @ = "nil" THEN "lazy" ELSE @]

getPHE(p, version) ==
    IF version \in p.PHEClients.keys THEN <<version>> ELSE NoClient

\* Faulty variant: the registry is read by the epoch a token upgrades from.
getToken_KeyedBySource(p, version) ==
    IF p.UpdateTokens.isNil THEN NoToken
    ELSE IF (version - 1) \in p.UpdateTokens.keys THEN <<version - 1>>
    ELSE NoToken

getToken(p, version) ==
    IF p.UpdateTokens.isNil THEN NoToken
    ELSE IF version \in p.UpdateTokens.keys THEN <<version>>
    ELSE NoToken

-----------------------------------------------------------------------------
\* Replies of APIClient.GetEnrollment: (nil, err), (nil, nil), or a response
\* naming an epoch and carrying a seed made under the server key of epoch ep (0: none).
SeedReplies ==
    {[kind |-> "err", Version |-> 0, Enrollment |-> [ep |-> 0]],
     [kind |-> "nil", Version |-> 0, Enrollment |-> [ep |-> 0]]}
    \cup
    {[kind |-> "ok", Version |-> r, Enrollment |-> [ep |-> IF good THEN r ELSE 0]] :
        r \in Versions, good \in BOOLEAN}

\* Replies of APIClient.VerifyPassword: (nil, err), (nil, nil), a response that
\* fails the proof check, or the service's genuine answer.
VerifyReplies == {"err", "nil", "forged", "honest"}

\* The outcome of a call.  panicked: the call did not return.
Outcome(op, pw, in, out, key, err, panicked, reqs, lookups, phe) ==
    [op |-> op, pw |-> pw, in |-> in, out |-> out, key |-> key, err |-> err,
     panicked |-> panicked, reqs |-> reqs, lookups |-> lookups, phe |-> phe]

NoCall == Outcome("none", "", NoDoc, NoDoc, EmptyKey, NoErr, FALSE, <<>>, <<>>, NoClient)

EnrollAccountResult(p, password, reply, m) ==
    LET req == [kind |-> "enroll", Version |-> p.CurrentVersion, reply |-> reply.kind]
        fail(e, cl) == Outcome("Enroll", password, NoDoc, NoDoc, EmptyKey, e, FALSE, <<req>>, <<>>, cl)
    IN  IF reply.kind = "err" THEN fail(ErrRequestFailed, NoClient)
        ELSE IF reply.kind = "nil"
        THEN Outcome("Enroll", password, NoDoc, NoDoc, EmptyKey, NoErr, TRUE, <<req>>, <<>>, NoClient)
        ELSE LET phe == getPHE(p, reply.Version) IN
             IF phe = NoClient THEN fail(ErrEpochUnavailable, NoClient)
             ELSE LET e == PheEnrollAccount(phe, password, reply.Enrollment, m) IN
                  IF e.err # NoErr THEN fail(ErrEnrollFailed, phe)
                  ELSE Outcome("Enroll", password, NoDoc,
                               Marshal(EnrollmentRecord(p.CurrentVersion, e.rec)),
                               e.key, NoErr, FALSE, <<req>>, <<>>, phe)

\* errors.Wrap(err, msg) is nil when err is nil.
Wrap(err, kind) == IF err = NoErr THEN NoErr ELSE kind

VerifyOutcome(password, enrollmentRecord, key, e, reqs, cl) ==
    Outcome("Verify", password, enrollmentRecord, NoDoc, key, e, FALSE, reqs, <<>>, cl)

\* Faulty variant: the zero-length key is handed back as a success.
VerifyDecrypt_NoEmptyKeyCheck(password, enrollmentRecord, rec, phe, req, resp) ==
    LET d == PheCheckResponseAndDecrypt(phe, password, rec.Enrollment, resp) IN
    IF d.err # NoErr
    THEN VerifyOutcome(password, enrollmentRecord, EmptyKey, ErrVerificationFailed, <<req>>, phe)
    ELSE VerifyOutcome(password, enrollmentRecord, d.key, NoErr, <<req>>, phe)

\* VerifyPassword from the check of the response on.
VerifyDecrypt(password, enrollmentRecord, rec, phe, req, resp) ==
    LET d == PheCheckResponseAndDecrypt(phe, password, rec.Enrollment, resp) IN
    IF d.err # NoErr
    THEN VerifyOutcome(password, enrollmentRecord, EmptyKey, ErrVerificationFailed, <<req>>, phe)
    ELSE IF d.key = EmptyKey
    THEN VerifyOutcome(password, enrollmentRecord, EmptyKey, ErrInvalidPassword, <<req>>, phe)
    ELSE VerifyOutcome(password, enrollmentRecord, d.key, NoErr, <<req>>, phe)

\* VerifyPassword from the client lookup to the remote call.
\* Faulty variant: a failed request is sent a second time.
VerifyRequest_RetryOnce(p, password, enrollmentRecord, rec, reply) ==
    LET phe == getPHE(p, rec.Version) IN
    IF phe = NoClient
    THEN VerifyOutcome(password, enrollmentRecord, EmptyKey, ErrEpochUnavailable, <<>>, NoClient)
    ELSE LET c == PheCreateVerifyPasswordRequest(phe, password, rec.Enrollment) IN
         IF c.err # NoErr
         THEN VerifyOutcome(password, enrollmentRecord, EmptyKey, ErrChallengeFailed, <<>>, phe)
         ELSE LET req == [kind |-> "verify", Version |-> rec.Version, reply |-> reply]
                  rerr == IF reply = "err" THEN ErrVerificationRequestFailed ELSE NoErr
                  respNil == reply \in {"err", "nil"}
                  resp == IF reply = "honest" THEN ServerVerify(rec.Version, c.req)
                          ELSE [valid |-> FALSE, res |-> TRUE]
              IN  IF rerr # NoErr
                  THEN VerifyOutcome(password, enrollmentRecord, EmptyKey,
                                     Wrap(rerr, ErrVerificationRequestFailed), <<req, req>>, phe)
                  ELSE IF respNil
                  THEN VerifyOutcome(password, enrollmentRecord, EmptyKey, NoErr, <<req>>, phe)
                  ELSE VerifyDecrypt(password, enrollmentRecord, rec, phe, req, resp)

VerifyRequest(p, password, enrollmentRecord, rec, reply) ==
    LET phe == getPHE(p, rec.Version) IN
    IF phe = NoClient
    THEN VerifyOutcome(password, enrollmentRecord, EmptyKey, ErrEpochUnavailable, <<>>, NoClient)
    ELSE LET c == PheCreateVerifyPasswordRequest(phe, password, rec.Enrollment) IN
         IF c.err # NoErr
         THEN VerifyOutcome(password, enrollmentRecord, EmptyKey, ErrChallengeFailed, <<>>, phe)
         ELSE LET req == [kind |-> "verify", Version |-> rec.Version, reply |-> reply]
                  rerr == IF reply = "err" THEN ErrVerificationRequestFailed ELSE NoErr
                  respNil == reply \in {"err", "nil"}
                  resp == IF reply = "honest" THEN ServerVerify(rec.Version, c.req)
                          ELSE [valid |-> FALSE, res |-> TRUE]
              IN  IF rerr # NoErr \/ respNil
                  THEN VerifyOutcome(password, enrollmentRecord, EmptyKey,
                                     Wrap(rerr, ErrVerificationRequestFailed), <<req>>, phe)
                  ELSE VerifyDecrypt(password, enrollmentRecord, rec, phe, req, resp)

\* Faulty variant: only records newer than CurrentVersion are a mismatch.
VerifyPasswordResult_OlderAccepted(p, password, enrollmentRecord, reply) ==
    LET u == Unmarshal(enrollmentRecord)
        rec == u.rec
    IN  IF u.err # NoErr
        THEN VerifyOutcome(password, enrollmentRecord, EmptyKey, u.err, <<>>, NoClient)
        ELSE IF rec.isNil
        THEN Outcome("Verify", password, enrollmentRecord, NoDoc, EmptyKey, NoErr, TRUE, <<>>, <<>>, NoClient)
        ELSE IF rec.Version > p.CurrentVersion
        THEN VerifyOutcome(password, enrollmentRecord, EmptyKey, ErrVersionMismatch, <<>>, NoClient)
        ELSE VerifyRequest(p, password, enrollmentRecord, rec, reply)

\* VerifyPassword: decoding and the version check come first; a nil rec is
\* dereferenced by rec.Version.
VerifyPasswordResult(p, password, enrollmentRecord, reply) ==
    LET u == Unmarshal(enrollmentRecord)
        rec == u.rec
    IN  IF u.err # NoErr
        THEN VerifyOutcome(password, enrollmentRecord, EmptyKey, u.err, <<>>, NoClient)
        ELSE IF rec.isNil
        THEN Outcome("Verify", password, enrollmentRecord, NoDoc, EmptyKey, NoErr, TRUE, <<>>, <<>>, NoClient)
        ELSE IF rec.Version # p.CurrentVersion
        THEN VerifyOutcome(password, enrollmentRecord, EmptyKey, ErrVersionMismatch, <<>>, NoClient)
        ELSE VerifyRequest(p, password, enrollmentRecord, rec, reply)

\* Faulty variant: a missing token is skipped and the walk goes on.
RECURSIVE UpdateWalk_SkipsMissing(_, _, _, _, _)
UpdateWalk_SkipsMissing(p, rec, recVersion, newRec, lookups) ==
    IF ~(recVersion < p.CurrentVersion)
    THEN [err |-> NoErr, newRec |-> newRec, lookups |-> lookups]
    ELSE LET token == getToken(p, recVersion + 1)
             seen == Append(lookups, recVersion + 1)
         IN  IF token = NoToken
             THEN UpdateWalk_SkipsMissing(p, rec, recVersion + 1, newRec, seen)
             ELSE LET u == PheUpdateRecord(rec.Enrollment, token) IN
                  IF u.err # NoErr
                  THEN [err |-> u.err, newRec |-> NilBlob, lookups |-> seen]
                  ELSE UpdateWalk_SkipsMissing(p, rec, recVersion + 1, u.rec, seen)

\* The loop of UpdateEnrollmentRecord: every round hands rec.Enrollment, the
\* blob of the input record, to phe.UpdateRecord and overwrites newRec.
RECURSIVE UpdateWalk(_, _, _, _, _)
UpdateWalk(p, rec, recVersion, newRec, lookups) ==
    IF ~(recVersion < p.CurrentVersion)
    THEN [err |-> NoErr, newRec |-> newRec, lookups |-> lookups]
    ELSE LET token == getToken(p, recVersion + 1)
             seen == Append(lookups, recVersion + 1)
         IN  IF token = NoToken
             THEN [err |-> ErrMissingUpdateToken, newRec |-> NilBlob, lookups |-> seen]
             ELSE LET u == PheUpdateRecord(rec.Enrollment, token) IN
                  IF u.err # NoErr
                  THEN [err |-> u.err, newRec |-> NilBlob, lookups |-> seen]
                  ELSE UpdateWalk(p, rec, recVersion + 1, u.rec, seen)

UpdateOutcome(oldRecord, out, e, lookups) ==
    Outcome("Update", "", oldRecord, out, EmptyKey, e, FALSE, <<>>, lookups, NoClient)

\* UpdateEnrollmentRecord from the walk on: the result is re-encoded with
\* CurrentVersion and the last newRec.
UpdateMigrate(p, oldRecord, rec) ==
    LET w == UpdateWalk(p, rec, rec.Version, NilBlob, <<>>) IN
    IF w.err # NoErr THEN UpdateOutcome(oldRecord, NoDoc, w.err, w.lookups)
    ELSE UpdateOutcome(oldRecord, Marshal(EnrollmentRecord(p.CurrentVersion, w.newRec)),
                       NoErr, w.lookups)

\* Faulty variant: a record of a later epoch is taken as current.
UpdateEnrollmentRecordResult_FutureAccepted(p, oldRecord) ==
    LET u == Unmarshal(oldRecord)
        rec == u.rec
    IN  IF u.err # NoErr THEN UpdateOutcome(oldRecord, NoDoc, u.err, <<>>)
        ELSE IF rec.isNil
        THEN Outcome("Update", "", oldRecord, NoDoc, EmptyKey, NoErr, TRUE, <<>>, <<>>, NoClient)
        ELSE IF rec.Version >= p.CurrentVersion
        THEN UpdateOutcome(oldRecord, oldRecord, NoErr, <<>>)
        ELSE UpdateMigrate(p, oldRecord, rec)

\* Faulty variant: a current record is re-encoded instead of handed back.
UpdateEnrollmentRecordResult_Reencoded(p, oldRecord) ==
    LET u == Unmarshal(oldRecord)
        rec == u.rec
    IN  IF u.err # NoErr THEN UpdateOutcome(oldRecord, NoDoc, u.err, <<>>)
        ELSE IF rec.isNil
        THEN Outcome("Update", "", oldRecord, NoDoc, EmptyKey, NoErr, TRUE, <<>>, <<>>, NoClient)
        ELSE IF rec.Version = p.CurrentVersion
        THEN UpdateOutcome(oldRecord, Marshal(rec), NoErr, <<>>)
        ELSE IF rec.Version > p.CurrentVersion
        THEN UpdateOutcome(oldRecord, NoDoc, ErrInvalidVersion, <<>>)
        ELSE UpdateMigrate(p, oldRecord, rec)

\* UpdateEnrollmentRecord: decoding, then the two version checks; a nil rec
\* is dereferenced by rec.Version.
UpdateEnrollmentRecordResult(p, oldRecord) ==
    LET u == Unmarshal(oldRecord)
        rec == u.rec
    IN  IF u.err # NoErr THEN UpdateOutcome(oldRecord, NoDoc, u.err, <<>>)
        ELSE IF rec.isNil
        THEN Outcome("Update", "", oldRecord, NoDoc, EmptyKey, NoErr, TRUE, <<>>, <<>>, NoClient)
        ELSE IF rec.Version = p.CurrentVersion
        THEN UpdateOutcome(oldRecord, oldRecord, NoErr, <<>>)
        ELSE IF rec.Version > p.CurrentVersion
        THEN UpdateOutcome(oldRecord, NoDoc, ErrInvalidVersion, <<>>)
        ELSE UpdateMigrate(p, oldRecord, rec)

-----------------------------------------------------------------------------
\* tokens e+1, ..., v in order.
RECURSIVE TokenChain(_, _)
TokenChain(e, v) == IF v <= e THEN <<>> ELSE Append(TokenChain(e, v - 1), v)

\* Versions below every epoch: the version field of a record is any int.
LowVersions == {-1, 0}

\* Records a caller may hold in storage: documents that are no envelope,
\* envelopes without an enrollment, records enrolled at epoch e and migrated
\* one epoch at a time up to epoch v, enrolled records with extra bytes, and
\* records whose version is zero or negative.
StoredDocs ==
    {NullDoc, BadDoc}
    \cup {ObjDoc(v, b, FALSE) : v \in LowVersions, b \in {NilBlob, Blob("pw1", "k1", 1, <<>>)}}
    \cup {ObjDoc(v, NilBlob, FALSE) : v \in 0..MaxVersion}
    \cup UNION {{ObjDoc(v, Blob("pw1", "k1", e, TokenChain(e, v)), FALSE) :
                    e \in 1..v} : v \in Versions}
    \cup {ObjDoc(v, Blob("pw1", "k1", v, <<>>), TRUE) : v \in Versions}

\* The record a call is given: one from storage, or the one the previous call
\* on this orchestrator returned.
InputDocs == StoredDocs \cup (IF last.out.kind = "obj" THEN {last.out} ELSE {})

\* Goroutines that may call into the orchestrator at the same time.
NGoroutines == 2
Goroutines == 1..NGoroutines

\* A handle as a caller sees it: the APIClient field and, for a value built
\* by getClient, the serial number of the construction (0: none built).
Handle(p, c) == <<p.APIClient, c.inst>>
NoHandle == <<"none", 0>>

\* No goroutine is inside getClient; mu = 0: the mutex of the Once is free.
NoArgs == [op |-> "none", pw |-> "", doc |-> NoDoc]
ConcIdle ==
    [pc |-> [g \in Goroutines |-> "idle"],
     call |-> [g \in Goroutines |-> NoArgs],
     got |-> [g \in Goroutines |-> NoHandle],
     mu |-> 0, made |-> 0, inst |-> 0]

\* The state after construction: NewProtocol has run on some context.
Init ==
    /\ ctx \in Contexts
    /\ proto = NewProtocolResult(ctx).p
    /\ newErr = NewProtocolResult(ctx).err
    /\ last = NoCall
    /\ conc = ConcIdle

\* The caller sets the exported APIClient field before the first use.
SupplyAPIClient ==
    /\ ~proto.isNil
    /\ ~proto.once
    /\ proto.APIClient = "nil"
    /\ \A g \in Goroutines : conc.pc[g] = "idle"
    /\ proto' = [proto EXCEPT !.APIClient = "supplied"]
    /\ UNCHANGED <<ctx, newErr, last, conc>>

\* A call runs in a goroutine, and the goroutines interleave step by step.
\* EnrollAccount and VerifyPassword go through p.getClient(), that is through
\* the steps of sync.Once.Do
\*   Do:      if o.done == 0 { doSlow(f) }
\*   doSlow:  o.m.Lock(); defer o.m.Unlock()
\*            if o.done == 0 { defer store(o.done, 1); f() }
\*   f:       if p.APIClient == nil { p.APIClient = &APIClient{AppID: p.AppID} }
\* and return p.APIClient (proto.once is o.done); the call then waits in the
\* APIClient until the reply arrives.  The calls of one goroutine, Caller, are
\* followed with their arguments and outcome: last is the outcome Caller
\* holds, and is gone once Caller is in its next call.  Of the calls of the
\* other goroutines only what they do to the orchestrator is kept.
Caller == CHOOSE g \in Goroutines : \A h \in Goroutines : g <= h
Others == Goroutines \ {Caller}

Goto(g, label) == [conc EXCEPT !.pc[g] = label]

\* Faulty variant: Lock does not wait for the holder.
MutexFree_NoLock(c) == TRUE

\* o.m.Lock() goes through when nobody holds the mutex.
MutexFree(c) == c.mu = 0

OnceLock(g) ==
    /\ conc.pc[g] = "lock"
    /\ MutexFree(conc)
    /\ conc' = [Goto(g, "slow") EXCEPT !.mu = g]
    /\ UNCHANGED <<ctx, proto, newErr, last>>

\* doSlow reads o.done again under the mutex.
OnceSlow(g) ==
    /\ conc.pc[g] = "slow"
    /\ conc' = Goto(g, IF proto.once THEN "unlock" ELSE "test")
    /\ UNCHANGED <<ctx, proto, newErr, last>>

\* f: if p.APIClient == nil
OnceTest(g) ==
    /\ conc.pc[g] = "test"
    /\ conc' = Goto(g, IF proto.APIClient = "nil" THEN "make" ELSE "store")
    /\ UNCHANGED <<ctx, proto, newErr, last>>

\* f: p.APIClient = &APIClient{AppID: p.AppID}
OnceMake(g) ==
    /\ conc.pc[g] = "make"
    /\ proto' = [proto EXCEPT !.APIClient = "lazy"]
    /\ conc' = [Goto(g, "store") EXCEPT !.made = @ + 1, !.inst = conc.made + 1]
    /\ UNCHANGED <<ctx, newErr, last>>

\* deferred store of o.done
OnceStore(g) ==
    /\ conc.pc[g] = "store"
    /\ proto' = [proto EXCEPT !.once = TRUE]
    /\ conc' = Goto(g, "unlock")
    /\ UNCHANGED <<ctx, newErr, last>>

OnceUnlock(g) ==
    /\ conc.pc[g] = "unlock"
    /\ conc' = [Goto(g, "ret") EXCEPT !.mu = 0]
    /\ UNCHANGED <<ctx, proto, newErr, last>>

\* return p.APIClient
OnceReturn(g) ==
    /\ conc.pc[g] = "ret"
    /\ conc' = [Goto(g, "done") EXCEPT !.got[g] = Handle(proto, conc)]
    /\ UNCHANGED <<ctx, proto, newErr, last>>

\* Goroutine g enters getClient in a call of op with these arguments: the
\* fast path of Do reads o.done.
Enters(g, op, password, doc) ==
    [Goto(g, IF proto.once THEN "ret" ELSE "lock") EXCEPT
        !.call[g] = [op |-> op, pw |-> password, doc |-> doc]]

\* Goroutine g, holding the handle getClient returned, waits in the APIClient
\* for the reply to its op request.
Waits(g, op) == conc.pc[g] = "done" /\ conc.call[g].op = op

\* Goroutine g has returned from its call.
Unblocked(g) ==
    [conc EXCEPT !.pc[g] = "idle", !.call[g] = NoArgs, !.got[g] = NoHandle]

\* EnrollAccount is called and enters p.getClient().
EnrollCall ==
    /\ ~proto.isNil
    /\ conc.pc[Caller] = "idle"
    /\ \E password \in Passwords :
        conc' = Enters(Caller, "enroll", password, NoDoc)
    /\ last' = NoCall
    /\ UNCHANGED <<ctx, proto, newErr>>

\* Faulty variant: the orchestrator adopts the epoch the seed response names.
EnrollReturn_AdoptsVersion ==
    /\ Waits(Caller, "enroll")
    /\ \E reply \in SeedReplies, m \in Keys :
        /\ last' = EnrollAccountResult(proto, conc.call[Caller].pw, reply, m)
        /\ proto' = [proto EXCEPT
                        !.CurrentVersion = IF reply.kind = "ok" THEN reply.Version ELSE @]
    /\ conc' = Unblocked(Caller)
    /\ UNCHANGED <<ctx, newErr>>

\* EnrollAccount from the reply of GetEnrollment on.
EnrollReturn ==
    /\ Waits(Caller, "enroll")
    /\ \E reply \in SeedReplies, m \in Keys :
        last' = EnrollAccountResult(proto, conc.call[Caller].pw, reply, m)
    /\ conc' = Unblocked(Caller)
    /\ UNCHANGED <<ctx, proto, newErr>>

\* The call VerifyPassword(password, enrollmentRecord) gets as far as its
\* request: decode, version comparison, client lookup and challenge pass.
SendsRequest(p, password, enrollmentRecord) ==
    VerifyPasswordResult(p, password, enrollmentRecord, "honest").reqs # <<>>

\* VerifyPassword returns before any request.
VerifyReject ==
    /\ ~proto.isNil
    /\ conc.pc[Caller] = "idle"
    /\ \E password \in Passwords, enrollmentRecord \in InputDocs :
        /\ ~SendsRequest(proto, password, enrollmentRecord)
        /\ last' = VerifyPasswordResult(proto, password, enrollmentRecord, "honest")
    /\ UNCHANGED <<ctx, proto, newErr, conc>>

\* VerifyPassword is called, passes its checks and enters p.getClient().
VerifyCall ==
    /\ ~proto.isNil
    /\ conc.pc[Caller] = "idle"
    /\ \E password \in Passwords, enrollmentRecord \in InputDocs :
        /\ SendsRequest(proto, password, enrollmentRecord)
        /\ conc' = Enters(Caller, "verify", password, enrollmentRecord)
    /\ last' = NoCall
    /\ UNCHANGED <<ctx, proto, newErr>>

\* VerifyPassword from the reply on.
VerifyReturn ==
    /\ Waits(Caller, "verify")
    /\ \E reply \in VerifyReplies :
        last' = VerifyPasswordResult(proto, conc.call[Caller].pw, conc.call[Caller].doc, reply)
    /\ conc' = Unblocked(Caller)
    /\ UNCHANGED <<ctx, proto, newErr>>

\* UpdateEnrollmentRecord reads the registries and blocks nowhere.
UpdateEnrollmentRecord ==
    /\ ~proto.isNil
    /\ conc.pc[Caller] = "idle"
    /\ \E oldRecord \in InputDocs :
        last' = UpdateEnrollmentRecordResult(proto, oldRecord)
    /\ UNCHANGED <<ctx, proto, newErr, conc>>

\* Another goroutine's call enters p.getClient() (EnrollAccount always does,
\* VerifyPassword when its record passes the checks).
OtherCall(g) ==
    /\ ~proto.isNil
    /\ conc.pc[g] = "idle"
    /\ conc' = Enters(g, "other", "", NoDoc)
    /\ UNCHANGED <<ctx, proto, newErr, last>>

\* Another goroutine's call returns, to that goroutine.  (Its calls that
\* send nothing, UpdateEnrollmentRecord among them, change nothing here.)
OtherReturn(g) ==
    /\ Waits(g, "other")
    /\ conc' = Unblocked(g)
    /\ UNCHANGED <<ctx, proto, newErr, last>>

Next ==
    \/ SupplyAPIClient
    \/ EnrollCall
    \/ EnrollReturn
    \/ VerifyReject
    \/ VerifyCall
    \/ VerifyReturn
    \/ UpdateEnrollmentRecord
    \/ \E g \in Others :
        \/ OtherCall(g)
        \/ OtherReturn(g)
    \/ \E g \in Goroutines :
        \/ OnceLock(g)
        \/ OnceSlow(g)
        \/ OnceTest(g)
        \/ OnceMake(g)
        \/ OnceStore(g)
        \/ OnceUnlock(g)
        \/ OnceReturn(g)

Spec == Init /\ [][Next]_vars

-----------------------------------------------------------------------------
\* The migration walk on its own: orchestrators whose token registry may
\* also hold entries for epochs 0 and 1, and calls of UpdateEnrollmentRecord
\* only.
WalkTokenEpochs == 0..MaxVersion

WalkContexts ==
    [isNil : {FALSE},
     AppId : {"app"},
     PHEClients : {MapOf(Versions)},
     UpdateTokens : {NilMap} \cup {MapOf(S) : S \in SUBSET WalkTokenEpochs},
     Version : Versions]

InitWalk ==
    /\ ctx \in WalkContexts
    /\ proto = NewProtocolResult(ctx).p
    /\ newErr = NewProtocolResult(ctx).err
    /\ last = NoCall
    /\ conc = ConcIdle

NextWalk == UpdateEnrollmentRecord

SpecWalk == InitWalk /\ [][NextWalk]_vars

-----------------------------------------------------------------------------
\* getClient on its own: goroutines that only call p.getClient(), first and
\* later calls, interleaved step by step.

\* The registries play no part in getClient: one valid context per epoch.
OnceContexts ==
    {c \in Contexts : /\ ~NewProtocolResult(c).p.isNil
                      /\ c.PHEClients = MapOf(Versions)
                      /\ c.UpdateTokens.isNil}

InitOnce ==
    /\ ctx \in OnceContexts
    /\ proto = NewProtocolResult(ctx).p
    /\ newErr = NewProtocolResult(ctx).err
    /\ last = NoCall
    /\ conc = ConcIdle

\* A first or later call of EnrollAccount / VerifyPassword enters getClient:
\* the fast path of Do reads o.done.
OnceFast(g) ==
    /\ conc.pc[g] \in {"idle", "done"}
    /\ conc' = Goto(g, IF proto.once THEN "ret" ELSE "lock")
    /\ UNCHANGED <<ctx, proto, newErr, last>>

NextOnce ==
    \/ SupplyAPIClient
    \/ \E g \in Goroutines :
        \/ OnceFast(g)
        \/ OnceLock(g)
        \/ OnceSlow(g)
        \/ OnceTest(g)
        \/ OnceMake(g)
        \/ OnceStore(g)
        \/ OnceUnlock(g)
        \/ OnceReturn(g)

SpecOnce == InitOnce /\ [][NextOnce]_vars

-----------------------------------------------------------------------------
\* Vocabulary of the properties.

Parsed(doc) == doc.kind = "obj"
HasEnrollment(doc) == Parsed(doc) /\ ~doc.enrollment.isNil

\* doc is what enrolling at epoch a leaves in storage.
EnrolledAt(doc, a) ==
    /\ HasEnrollment(doc)
    /\ doc.version = a
    /\ doc.enrollment.ep = a
    /\ doc.enrollment.toks = <<>>

\* The registry holds a token for every epoch in (a, c].
TokensPresent(a, c) ==
    /\ ~proto.UpdateTokens.isNil
    /\ \A v \in (a + 1)..c : v \in proto.UpdateTokens.keys

ClientPresent(v) == v \in proto.PHEClients.keys

\* The last call issued a remote request.
Requested == last.reqs # <<>>
\* The remote endpoint did not get in the way of the last call.
RemoteHonest == ~Requested \/ last.reqs[1].reply = "honest"

Returned(op) == last.op = op /\ ~last.panicked
Failed(e) == last.err = e /\ last.out = NoDoc /\ last.key = EmptyKey

\* C1: a record enrolled for p at epoch a and migrated by UpdateEnrollmentRecord
\* to a later CurrentVersion c (all tokens of (a, c] present) verifies under
\* VerifyPassword(p, .) and yields the key the enrollment returned.
C1_MigrationPreservesVerifiability ==
    \A d \in StoredDocs :
        ( /\ EnrolledAt(d, d.version)
          /\ d.version < proto.CurrentVersion
          /\ TokensPresent(d.version, proto.CurrentVersion)
          /\ ClientPresent(proto.CurrentVersion)
          /\ Returned("Verify")
          /\ last.in = UpdateEnrollmentRecordResult(proto, d).out
          /\ last.pw = d.enrollment.pw
          /\ RemoteHonest )
        => (last.err = NoErr /\ last.key = d.enrollment.key)

\* C2: migrating a record of epoch a < CurrentVersion with all tokens present
\* applies token(a+1), ..., token(CurrentVersion) in order, each to the blob
\* the previous one produced, and tags the result CurrentVersion.
C2_TokensAppliedInOrder ==
    ( /\ Returned("Update")
      /\ HasEnrollment(last.in)
      /\ last.in.version < proto.CurrentVersion
      /\ TokensPresent(last.in.version, proto.CurrentVersion) )
    => /\ last.err = NoErr
       /\ last.out = ObjDoc(proto.CurrentVersion,
                            [last.in.enrollment EXCEPT
                                !.toks = @ \o TokenChain(last.in.version, proto.CurrentVersion)],
                            FALSE)

\* C3: for a < b < c with all tokens of (a, c] present, updating an epoch-a
\* record straight to c gives the record that updating it to b and then
\* updating that result to c gives.
C3_MigrationComposes ==
    \A d \in StoredDocs :
        LET pb == [proto EXCEPT !.CurrentVersion = last.in.version] IN
        ( /\ Returned("Update")
          /\ last.err = NoErr
          /\ HasEnrollment(d)
          /\ Parsed(last.in)
          /\ d.version < last.in.version
          /\ last.in.version < proto.CurrentVersion
          /\ TokensPresent(d.version, proto.CurrentVersion)
          /\ last.in = UpdateEnrollmentRecordResult(pb, d).out )
        => last.out = UpdateEnrollmentRecordResult(proto, d).out

\* C4: when EnrollAccount(p) succeeds with (record, key), VerifyPassword(p,
\* record) on the same orchestrator succeeds and returns exactly key.
C4_EnrollVerifyRoundTrip ==
    \A reply \in SeedReplies, m \in Keys :
        LET e == EnrollAccountResult(proto, last.pw, reply, m) IN
        ( /\ Returned("Verify")
          /\ ClientPresent(proto.CurrentVersion)
          /\ ~e.panicked
          /\ e.err = NoErr
          /\ last.in = e.out
          /\ RemoteHonest )
        => (last.err = NoErr /\ last.key = e.key)

\* The outcome of the check-and-decrypt step of the last VerifyPassword call,
\* when the call got that far.
CheckStepReached ==
    /\ last.op = "Verify"
    /\ Requested
    /\ last.reqs[1].reply \in {"forged", "honest"}

CheckStep ==
    PheCheckResponseAndDecrypt(
        last.phe, last.pw, last.in.enrollment,
        IF last.reqs[1].reply = "honest"
        THEN ServerVerify(last.in.version,
                          PheCreateVerifyPasswordRequest(last.phe, last.pw, last.in.enrollment).req)
        ELSE [valid |-> FALSE, res |-> TRUE])

\* C5: VerifyPassword with a password other than the enrolled one never
\* returns a non-empty key; it fails with InvalidPassword whenever the remote
\* endpoint answers a request for it, and whenever check-and-decrypt yields a
\* zero-length key without an error the call returns InvalidPassword and no
\* key.
C5_WrongPasswordRejected ==
    /\ ( /\ Returned("Verify")
         /\ HasEnrollment(last.in)
         /\ last.pw # last.in.enrollment.pw )
       => /\ last.key = EmptyKey
          /\ (Requested /\ RemoteHonest) => Failed(ErrInvalidPassword)
    /\ ( /\ CheckStepReached
         /\ CheckStep.err = NoErr
         /\ CheckStep.key = EmptyKey )
       => Failed(ErrInvalidPassword)

C5_Witness ==
    /\ Returned("Verify")
    /\ HasEnrollment(last.in)
    /\ last.pw # last.in.enrollment.pw
    /\ CheckStepReached
    /\ CheckStep.err = NoErr
    /\ CheckStep.key = EmptyKey
    /\ last.err = ErrInvalidPassword

\* The result a call hands back, if any.
HasResult ==
    CASE last.op = "Enroll" -> last.out # NoDoc /\ last.key # EmptyKey
      [] last.op = "Verify" -> last.key # EmptyKey
      [] last.op = "Update" -> last.out # NoDoc
      [] OTHER -> FALSE

\* C6: every call that returns ends with a complete result and no error, or
\* with an error and no result; never with neither.
C6_ResultOrError ==
    (last.op # "none" /\ ~last.panicked)
    => (HasResult <=> last.err = NoErr)

\* C7: VerifyPassword on a parsed record whose version differs from
\* CurrentVersion fails with VersionMismatch, whatever the password and the
\* client registry, and migrates nothing.
C7_VersionMismatch ==
    ( /\ Returned("Verify")
      /\ Parsed(last.in)
      /\ last.in.version # proto.CurrentVersion )
    => /\ Failed(ErrVersionMismatch)
       /\ last.reqs = <<>>
       /\ last.lookups = <<>>

C7_Witness ==
    /\ Returned("Verify")
    /\ HasEnrollment(last.in)
    /\ last.in.version < proto.CurrentVersion
    /\ ClientPresent(last.in.version)
    /\ TokensPresent(last.in.version, proto.CurrentVersion)
    /\ last.pw = last.in.enrollment.pw
    /\ last.err = ErrVersionMismatch

\* C8: UpdateEnrollmentRecord on a record of epoch a < CurrentVersion with a
\* token missing somewhere in (a, CurrentVersion] (the first, a middle or the
\* last link of the chain, or no token map at all) returns an error and no
\* record; the error is MissingUpdateToken whenever the walk gets to the
\* missing link, that is when the record has an enrollment or the first link
\* is the missing one.
C8_MissingToken ==
    ( /\ Returned("Update")
      /\ Parsed(last.in)
      /\ last.in.version < proto.CurrentVersion
      /\ ~TokensPresent(last.in.version, proto.CurrentVersion) )
    => /\ last.err # NoErr
       /\ last.out = NoDoc
       /\ (HasEnrollment(last.in) \/ ~TokensPresent(last.in.version, last.in.version + 1))
          => last.err = ErrMissingUpdateToken

\* The first and the last link are there and one in the middle is not.
C8_Witness ==
    /\ Returned("Update")
    /\ HasEnrollment(last.in)
    /\ last.in.version + 2 < proto.CurrentVersion
    /\ ~proto.UpdateTokens.isNil
    /\ (last.in.version + 1) \in proto.UpdateTokens.keys
    /\ proto.CurrentVersion \in proto.UpdateTokens.keys
    /\ \E m \in (last.in.version + 2)..(proto.CurrentVersion - 1) :
        m \notin proto.UpdateTokens.keys
    /\ last.lookups # <<>>
    /\ last.lookups[Len(last.lookups)] \notin proto.UpdateTokens.keys
    /\ Failed(ErrMissingUpdateToken)

\* C9: UpdateEnrollmentRecord on a record whose version exceeds
\* CurrentVersion fails with InvalidVersion and returns no record, whatever
\* the token registry holds.
C9_FutureVersionRejected ==
    ( /\ Returned("Update")
      /\ Parsed(last.in)
      /\ last.in.version > proto.CurrentVersion )
    => /\ Failed(ErrInvalidVersion)
       /\ last.lookups = <<>>

C9_Witness ==
    /\ Returned("Update")
    /\ HasEnrollment(last.in)
    /\ last.in.version > proto.CurrentVersion
    /\ TokensPresent(1, MaxVersion)
    /\ last.err = ErrInvalidVersion

\* C10: a record already at CurrentVersion comes back byte for byte, with no
\* token looked up; hence updating the output of a successful update gives
\* that output again.
C10_IdempotentAtCurrent ==
    /\ ( /\ Returned("Update")
         /\ Parsed(last.in)
         /\ last.in.version = proto.CurrentVersion )
       => /\ last.err = NoErr
          /\ last.out = last.in
          /\ last.lookups = <<>>
    /\ ( /\ Returned("Update")
         /\ last.err = NoErr )
       => LET again == UpdateEnrollmentRecordResult(proto, last.out) IN
          /\ again.err = NoErr
          /\ again.out = last.out
          /\ again.lookups = <<>>

C10_Witness ==
    /\ Returned("Update")
    /\ Parsed(last.in)
    /\ last.in.version = proto.CurrentVersion
    /\ last.in.extra
    /\ last.out = last.in

\* C11: NewProtocol fails with InvalidConfiguration and yields no orchestrator
\* whenever the context is missing, the app identity is empty, or the client
\* registry is absent or holds no entry; an orchestrator exists only with a
\* non-empty app identity and a non-empty client registry.
C11_InvalidConfiguration ==
    /\ (ctx.isNil \/ ctx.AppId = "" \/ ctx.PHEClients.isNil \/ ctx.PHEClients.keys = {})
       => (proto.isNil /\ newErr = ErrInvalidContext)
    /\ ~proto.isNil => (proto.AppID # "" /\ proto.PHEClients.keys # {})

\* The seed reply of the last EnrollAccount call was a response (not an
\* error, not nil).
SeedAnswered == last.reqs # <<>> /\ last.reqs[1].reply = "ok"

\* C12: every record EnrollAccount returns is tagged CurrentVersion and was
\* computed by the client registered for CurrentVersion, whatever epoch the
\* seed response names; with no client for CurrentVersion the call fails with
\* EpochUnavailable and returns no record.
C12_EnrollUsesCurrentVersion ==
    Returned("Enroll") =>
        /\ last.out # NoDoc =>
            /\ last.out.version = proto.CurrentVersion
            /\ last.phe = <<proto.CurrentVersion>>
        /\ (SeedAnswered /\ ~ClientPresent(proto.CurrentVersion))
           => Failed(ErrEpochUnavailable)

\* C13: VerifyPassword and UpdateEnrollmentRecord return MalformedRecord, as
\* an ordinary error, for every input that is no envelope (an empty/null
\* document included), before any registry lookup or remote request.
C13_MalformedRecord ==
    (last.op \in {"Verify", "Update"} /\ ~Parsed(last.in))
    => /\ ~last.panicked
       /\ Failed(ErrMalformedRecord)
       /\ last.reqs = <<>>
       /\ last.lookups = <<>>

\* C14: under any interleaving of concurrent calls that enter getClient, the
\* remote handle is constructed at most once, every caller is given the
\* handle that is in the field, a handle once set is never replaced, and a
\* handle supplied before the first use is kept with none constructed.
C14_HandleBuiltOnce ==
    /\ [](/\ conc.made <= 1
          /\ proto.APIClient = "supplied" => conc.made = 0
          /\ \A g \in Goroutines :
                conc.got[g] # NoHandle =>
                    /\ conc.got[g] = Handle(proto, conc)
                    /\ conc.got[g][1] # "nil")
    /\ [][proto.APIClient # "nil" =>
            /\ proto'.APIClient = proto.APIClient
            /\ conc'.inst = conc.inst
            /\ conc'.made = conc.made]_vars

C14_Witness ==
    /\ \A g \in Goroutines :
        /\ conc.pc[g] = "done"
        /\ conc.got[g] = <<"lazy", 1>>
    /\ conc.made = 1

\* C15: no operation retries.  Every EnrollAccount call issues exactly one
\* remote request, the seed request for CurrentVersion; every VerifyPassword
\* call issues at most one; UpdateEnrollmentRecord issues none; a call whose
\* request failed returns an error and no result, with no second request.
C15_NoRetries ==
    /\ last.op = "Enroll" =>
        /\ Len(last.reqs) = 1
        /\ last.reqs[1].kind = "enroll"
        /\ last.reqs[1].Version = proto.CurrentVersion
    /\ last.op = "Verify" => Len(last.reqs) <= 1
    /\ last.op = "Update" => last.reqs = <<>>
    /\ (Requested /\ last.reqs[1].reply = "err") =>
        /\ Len(last.reqs) = 1
        /\ ~last.panicked
        /\ last.err \in {ErrRequestFailed, ErrVerificationRequestFailed}
        /\ last.out = NoDoc
        /\ last.key = EmptyKey

C15_Witness ==
    /\ Returned("Verify")
    /\ HasEnrollment(last.in)
    /\ Len(last.reqs) = 1
    /\ last.reqs[1].reply = "err"
    /\ Failed(ErrVerificationRequestFailed)

\* C16: VerifyPassword sends its request only after the record has parsed,
\* its version equals CurrentVersion, the client for that epoch was found and
\* the challenge was built; a call that ends in MalformedRecord,
\* VersionMismatch or EpochUnavailable has sent nothing, and every request
\* sent carries CurrentVersion.
C16_VerifyRequestAfterChecks ==
    last.op = "Verify" =>
        /\ Requested =>
            /\ Parsed(last.in)
            /\ last.in.version = proto.CurrentVersion
            /\ ClientPresent(proto.CurrentVersion)
            /\ last.phe = <<proto.CurrentVersion>>
            /\ PheCreateVerifyPasswordRequest(last.phe, last.pw, last.in.enrollment).err = NoErr
            /\ last.reqs[1].kind = "verify"
            /\ last.reqs[1].Version = proto.CurrentVersion
        /\ last.err \in {ErrMalformedRecord, ErrVersionMismatch, ErrEpochUnavailable}
           => ~Requested
        /\ last.panicked => ~Requested

C16_Witness ==
    /\ Returned("Verify")
    /\ Requested
    /\ last.reqs[1].Version = proto.CurrentVersion
    /\ last.err = NoErr
    /\ last.key # EmptyKey

\* C17: a successful UpdateEnrollmentRecord returns a record whose version is
\* CurrentVersion and not lower than the version of the input; never a record
\* of an epoch in between.
C17_VersionNeverDecreases ==
    (Returned("Update") /\ last.err = NoErr) =>
        /\ Parsed(last.in)
        /\ Parsed(last.out)
        /\ last.out.version = proto.CurrentVersion
        /\ last.out.version >= last.in.version

C17_Witness ==
    /\ Returned("Update")
    /\ last.err = NoErr
    /\ HasEnrollment(last.in)
    /\ last.in.version + 2 <= proto.CurrentVersion
    /\ last.out.version = proto.CurrentVersion
    /\ Len(last.lookups) >= 2

\* C18: no operation changes CurrentVersion, the client registry or the token
\* registry (nor the app identity); of the orchestrator's fields only the
\* remote handle, with the Once that guards it, changes after construction.
C18_ConfigurationImmutable ==
    [][/\ proto'.isNil = proto.isNil
       /\ proto'.AppID = proto.AppID
       /\ proto'.CurrentVersion = proto.CurrentVersion
       /\ proto'.PHEClients = proto.PHEClients
       /\ proto'.UpdateTokens = proto.UpdateTokens]_vars

C18_Witness ==
    /\ Returned("Update")
    /\ last.lookups # <<>>
    /\ proto.once
    /\ proto.APIClient = "lazy"
    /\ proto.CurrentVersion = ctx.Version
    /\ proto.PHEClients = ctx.PHEClients
    /\ proto.UpdateTokens = ctx.UpdateTokens

\* C19: the migration walk terminates.  For every input version v below
\* CurrentVersion, zero and negative ones included, the call returns after at
\* most CurrentVersion - v token lookups, for the epochs v+1, v+2, ... in
\* increasing order; it stops at the first missing token (or failed update),
\* else on reaching CurrentVersion.
C19_WalkTerminates ==
    (last.op = "Update" /\ Parsed(last.in) /\ last.in.version < proto.CurrentVersion) =>
        LET v == last.in.version
            n == Len(last.lookups)
        IN  /\ ~last.panicked
            /\ n >= 1
            /\ n <= proto.CurrentVersion - v
            /\ \A i \in 1..n : last.lookups[i] = v + i
            /\ \A i \in 1..(n - 1) : (v + i) \in proto.UpdateTokens.keys
            /\ last.err = ErrMissingUpdateToken <=> (v + n) \notin proto.UpdateTokens.keys
            /\ last.err = NoErr => n = proto.CurrentVersion - v
            /\ n < proto.CurrentVersion - v
               => last.err \in {ErrMissingUpdateToken, ErrUpdateFailed}

C19_Witness ==
    /\ Returned("Update")
    /\ HasEnrollment(last.in)
    /\ last.in.version < 0
    /\ proto.CurrentVersion = MaxVersion
    /\ Len(last.lookups) = proto.CurrentVersion - last.in.version
    /\ last.err = NoErr

====
